---- MODULE Spec2Model ----
(***************************************************************************)
(* mongodb-restore (src/index.js): one restore session.                    *)
(*                                                                         *)
(* A session connects, optionally drops data, then lets a dump source      *)
(* (directory tree or tar stream) feed a stream listener, which drives a   *)
(* batching writer; at the end the writer is drained, index metadata is    *)
(* replayed, the connection is closed and the user's callback is called.   *)
(*                                                                         *)
(* Every database call and every stream event is asynchronous: an action   *)
(* of this module is one callback of the program, run to completion, with  *)
(* every synchronous call it makes.  The outcome of a call is chosen by    *)
(* the environment.  An exception thrown inside a callback is uncaught:    *)
(* the session stops where it is (pc = "crashed").                         *)
(*                                                                         *)
(* Names are tuples of their dot-separated parts ("system.js" is           *)
(* <<"system", "js">>, ".metadata" is <<"", "metadata">>) and paths are    *)
(* tuples of their slash-separated names, so that the regular expressions  *)
(* of the program are computed and not looked up.                          *)
(***************************************************************************)
EXTENDS Integers, Sequences, FiniteSets, Bags, TLC

VARIABLES
    my,             \* parsed options: drop, dropCollections, metadata, tar
    rootDir,        \* the dump directory tree (filesystem source)
    tarStream,      \* the entries of the archive (tar source)
    existing,       \* names of the collections the database holds at start
    pc,             \* which callback the session is waiting for
    connects,       \* MongoClient.connect calls issued
    closes,         \* db.close calls issued
    callbacks,      \* errors my.callback was called with, in order
    dropDatabases,  \* db.dropDatabase calls issued
    listings,       \* db.collections calls issued
    dropState,      \* someCollections: per selected collection, its progress
    counter,        \* someCollections: completed drop attempts
    drops,          \* collection.drop requests, in order
    imports,        \* arguments importDataToDb was called with, in order
    begins,         \* datasource.begin calls
    collections,    \* fileSystemDataSource: directories still to announce
    files,          \* fileSystemDataSource: files still to dispatch
    tarPos,         \* tar source: entries already emitted
    cur,            \* the entry or flush in flight
    dataToWrite,    \* writer: pending documents per collection, in key order
    metadata,       \* streamListener: accumulated metadata records
    creates,        \* db.createCollection requests, in order
    inserts,        \* bulkWrite requests, in order
    indexes,        \* createIndexes commands, in order
    blobsRead,      \* .metadata blobs the listener has buffered and decoded
    finishes,       \* streamListener.finish calls
    dispatched,     \* onDirectory and onFile calls made by the source
    acknowledged,   \* acknowledgments the source has received for them
    acks,           \* <<method, error>> the writer has called back with
    failed          \* kinds of calls that have answered with an error

vars == <<my, rootDir, tarStream, existing, pc, connects, closes, callbacks,
          dropDatabases, listings, dropState, counter, drops, imports,
          begins, collections, files, tarPos, cur, dataToWrite, metadata, creates,
          inserts, indexes, blobsRead, finishes, dispatched, acknowledged,
          acks, failed>>

----------------------------------------------------------------------------
(* Bounds of the model. *)

\* number of times the largest collection of a dump crosses the threshold
MaxFlushes == 2
\* documents beyond a multiple of a full batch
MaxExtra == 1
\* length of an explicit dropCollections list
MaxNamed == 2

(* The batch threshold of writer.addDocument. *)
Threshold == 50

NoErr == "null"

----------------------------------------------------------------------------
(* Names, paths and the regular expressions. *)

MetadataDir == <<"", "metadata">>

\* systemRegex = /^system\./
SystemRegexTest(name) == Len(name) >= 2 /\ name[1] = "system"

NoMatch == <<"<no match>">>

\* collectionNameForDirectory = '.*/([^/]+)/?$' : the last name of a path
\* that has a slash before it
CollectionNameForDirectory(path) ==
    IF Len(path) >= 2 THEN path[Len(path)] ELSE NoMatch

\* collectionNameForFiles = '.*/([^/]+)/[^/]+$' : the name of the parent
\* directory, which must itself follow a slash
CollectionNameForFiles(path) ==
    IF Len(path) >= 3 THEN path[Len(path) - 1] ELSE NoMatch

\* metadataFilenameRegexp = '.*/[^/]+/([^/]+)$' : the file's own name
MetadataFilename(path) ==
    IF Len(path) >= 3 THEN path[Len(path)] ELSE NoMatch

\* path.join(dir, name)
Join(dir, name) == Append(dir, name)

----------------------------------------------------------------------------
(* Decoders.  A blob is a sequence of bytes. *)

\* parser.parse (bson or json): blob -> document
ParserParse(blob) == [value |-> blob]

\* jsonParser().parse of a metadata blob: blob -> list of index specifications
JsonParse(blob) == [i \in 1..Len(blob) |-> [key |-> blob[i]]]

----------------------------------------------------------------------------
(* The dump.  A directory is [name, dirs] or [name, files]; a file is      *)
(* [name, data].  An archive is a sequence of [type, name, data] entries.  *)

Digit == <<"0", "1", "2", "3", "4", "5", "6", "7", "8", "9">>

\* the name of the i-th document file of a collection: "<i>.bson"
DocFile(i) ==
    <<Digit[((i \div 100) % 10) + 1], Digit[((i \div 10) % 10) + 1],
      Digit[(i % 10) + 1], "bson">>

\* the bytes of the i-th document file; contents repeat, names do not
DocData(i) == <<i % 3>>

DocFiles(n) == [i \in 1..n |-> [name |-> DocFile(i), data |-> DocData(i)]]

\* .metadata/<collection>: a list of index specifications
MetaFiles ==
    << [name |-> <<"a">>, data |-> <<"name">>],
       [name |-> <<"b">>, data |-> <<"age", "name">>] >>

\* the database directory of a dump: collection a with n documents, the
\* .metadata directory (when the dump has one), collection b with one
DbDir(n, withMeta) ==
    [name |-> <<"mydb">>,
     dirs |-> << [name |-> <<"a">>, files |-> DocFiles(n)] >>
              \o (IF withMeta
                  THEN << [name |-> MetadataDir, files |-> MetaFiles] >>
                  ELSE << >>)
              \o << [name |-> <<"b">>, files |-> DocFiles(1)] >>]

\* a stray second top-level directory
OtherDir == [name |-> <<"other">>, dirs |-> << >>]

RootPath == << <<"dump">> >>

RECURSIVE Concat(_)
\* [].concat.apply([], arrays)
Concat(arrays) ==
    IF arrays = << >> THEN << >> ELSE Head(arrays) \o Concat(Tail(arrays))

\* the archive of a database directory: every directory entry is followed
\* by its files; a symbolic link stands for the entry types the extractor
\* hands over but the program skips
TarOfDir(base, d) ==
    << [type |-> "directory", name |-> Join(base, d.name), data |-> << >>] >>
    \o [i \in 1..Len(d.files) |->
          [type |-> "file", name |-> Join(Join(base, d.name), d.files[i].name),
           data |-> d.files[i].data]]

TarOf(db, withRootEntry) ==
    (IF withRootEntry
     THEN << [type |-> "directory", name |-> <<db.name>>, data |-> << >>] >>
     ELSE << >>)
    \o << [type |-> "symlink", name |-> << db.name, <<"latest">> >>,
           data |-> << >>] >>
    \o Concat([i \in 1..Len(db.dirs) |-> TarOfDir(<<db.name>>, db.dirs[i])])

\* sizes of collection a: around every multiple of a full batch
DocCounts ==
    { n \in { k * (Threshold + 1) + e - 1 :
                k \in 0..MaxFlushes, e \in 0..MaxExtra } : n >= 0 }

SmallCounts == 0..MaxExtra

\* explicit dropCollections lists: the prefixes of this list
NamedCandidates ==
    << <<"a">>, <<"system", "js">>, <<"b">>, <<"old">>, <<"a">> >>

NamedLists == { SubSeq(NamedCandidates, 1, n) : n \in 0..MaxNamed }

\* what the database holds before the restore
Existing == << <<"a">>, <<"system", "indexes">>, <<"old">>, <<"systems">> >>

----------------------------------------------------------------------------
(* The session's mutable state as one record, so that a callback and the   *)
(* synchronous calls it makes compose as functions on it.                  *)

St ==
    [my |-> my, pc |-> pc, closes |-> closes, callbacks |-> callbacks,
     dropDatabases |-> dropDatabases, listings |-> listings,
     dropState |-> dropState, counter |-> counter, drops |-> drops,
     imports |-> imports,
     begins |-> begins, collections |-> collections, files |-> files,
     tarPos |-> tarPos, cur |-> cur, dataToWrite |-> dataToWrite,
     metadata |-> metadata, creates |-> creates, inserts |-> inserts,
     indexes |-> indexes, blobsRead |-> blobsRead, finishes |-> finishes,
     dispatched |-> dispatched, acknowledged |-> acknowledged, acks |-> acks,
     failed |-> failed]

Set(r) ==
    /\ my' = r.my
    /\ pc' = r.pc
    /\ closes' = r.closes
    /\ callbacks' = r.callbacks
    /\ dropDatabases' = r.dropDatabases
    /\ listings' = r.listings
    /\ dropState' = r.dropState
    /\ counter' = r.counter
    /\ drops' = r.drops
    /\ imports' = r.imports
    /\ begins' = r.begins
    /\ collections' = r.collections
    /\ files' = r.files
    /\ tarPos' = r.tarPos
    /\ cur' = r.cur
    /\ dataToWrite' = r.dataToWrite
    /\ metadata' = r.metadata
    /\ creates' = r.creates
    /\ inserts' = r.inserts
    /\ indexes' = r.indexes
    /\ blobsRead' = r.blobsRead
    /\ finishes' = r.finishes
    /\ dispatched' = r.dispatched
    /\ acknowledged' = r.acknowledged
    /\ acks' = r.acks
    /\ failed' = r.failed
    /\ UNCHANGED <<rootDir, tarStream, existing, connects>>

\* nothing in flight
NoCur ==
    [collectionName |-> << >>, metadataName |-> << >>, blob |-> << >>,
     operations |-> << >>, flush |-> "none", next |-> "none"]

\* an exception thrown in a callback: nothing catches it
Throw(r) == [r EXCEPT !.pc = "crashed"]

\* error(err): logs err.message when err is set
Error(r, err) == r

----------------------------------------------------------------------------
(* wrapper: the latest callback, and the end of datasource.begin *)

\* callback(err)
Callback(r, err) ==
    [r EXCEPT !.callbacks = Append(@, err), !.pc = "done", !.cur = NoCur]

\* the callback importDataToDb hands to datasource.begin
BeginCallback(r, err) ==
    Callback([r EXCEPT !.closes = @ + 1], err)

----------------------------------------------------------------------------
(* writer *)

\* Object.keys(dataToWrite)
Keys(data) == [i \in 1..Len(data) |-> data[i].name]

HasKey(data, name) == \E i \in 1..Len(data) : data[i].name = name

\* dataToWrite[collectionName]
Pending(data, name) ==
    LET i == CHOOSE i \in 1..Len(data) : data[i].name = name
    IN  data[i].documents

\* Delete, were the buffer kept
DeleteNothing(data, name) == data

\* delete dataToWrite[collectionName]
Delete(data, name) == SelectSeq(data, LAMBDA e : e.name # name)

\* Push, were the buffer replaced instead of appended to
PushReplacing(data, name, document) ==
    IF HasKey(data, name)
    THEN [i \in 1..Len(data) |->
            IF data[i].name = name
            THEN [data[i] EXCEPT !.documents = <<document>>]
            ELSE data[i]]
    ELSE Append(data, [name |-> name, documents |-> <<document>>])

\* dataToWrite[collectionName].push(document), or a new key with [document]
Push(data, name, document) ==
    IF HasKey(data, name)
    THEN [i \in 1..Len(data) |->
            IF data[i].name = name
            THEN [data[i] EXCEPT !.documents = Append(@, document)]
            ELSE data[i]]
    ELSE Append(data, [name |-> name, documents |-> <<document>>])

\* the operations of one bulkWrite: an insertOne per pending document
Operations(documents) ==
    [i \in 1..Len(documents) |-> [insertOne |-> [document |-> documents[i]]]]

\* MustFlush, were the comparison >=
MustFlushAtThreshold(documents) == Len(documents) >= Threshold

\* MustFlush, were the flush started one document later
MustFlushLate(documents) == Len(documents) > Threshold + 1

\* addDocument flushes when the buffer has grown beyond the threshold
MustFlush(documents) == Len(documents) > Threshold

RECURSIVE Ack(_, _, _), AddCollections(_), AddFiles(_), Drain(_),
          AddIndices(_), WriteAllInCollection(_, _, _, _), WriteDone(_, _)

\* the writer calls the callback it was handed by its caller
Called(r, method, err) == [r EXCEPT !.acks = @ \cup {<<method, err>>}]

\* next(err) of the tar extractor: the next entry is emitted once the
\* listener has called it; an error is the extractor's to react to
TarNext(r, err) ==
    [r EXCEPT !.pc = IF err = NoErr THEN "extract" ELSE "extractError",
              !.cur = NoCur]

\* Ack, were a source to give up on an error handed to its acknowledgment
AckStoppingOnError(r0, next, err) ==
    LET r == [r0 EXCEPT !.acknowledged = @ + 1]
    IN  IF err # NoErr /\ next # "tar"
        THEN BeginCallback(r, err)
        ELSE CASE next = "addCollections" -> AddCollections(Error(r, err))
               [] next = "addFiles" -> AddFiles(Error(r, err))
               [] next = "tar" -> TarNext(r, err)

\* the acknowledgment a source hands to onDirectory and onFile
Ack(r0, next, err) ==
    LET r == [r0 EXCEPT !.acknowledged = @ + 1]
    IN  CASE next = "addCollections" -> AddCollections(Error(r, err))
          [] next = "addFiles" -> AddFiles(Error(r, err))
          [] next = "tar" -> TarNext(r, err)

\* writeAllInCollection(collectionName, callback)
WriteAllInCollection(r, collectionName, flush, next) ==
    LET operations == Operations(Pending(r.dataToWrite, collectionName))
        r1 == [r EXCEPT !.cur = [NoCur EXCEPT !.collectionName = collectionName,
                                              !.operations = operations,
                                              !.flush = flush,
                                              !.next = next]]
    IN  IF Len(operations) = 0
        THEN \* callback(null) with the key still present: drain would
             \* select it again without end
             IF flush = "drain" THEN Throw(r1) ELSE WriteDone(r1, NoErr)
        ELSE [r1 EXCEPT !.pc = "collection"]

\* writer.createCollection(collectionName, next)
CreateCollection(r, collectionName, next) ==
    [r EXCEPT !.creates = Append(@, collectionName),
              !.pc = "createCollection",
              !.cur = [NoCur EXCEPT !.collectionName = collectionName,
                                    !.next = next]]

\* writer.addDocument(collectionName, document, next)
AddDocument(r, collectionName, document, next) ==
    LET r1 == [r EXCEPT !.dataToWrite = Push(@, collectionName, document)]
    IN  IF MustFlush(Pending(r1.dataToWrite, collectionName))
        THEN WriteAllInCollection(r1, collectionName, "addDocument", next)
        ELSE Ack(Called(r1, "addDocument", NoErr), next, NoErr)

\* the callback of writeAllInCollection: addDocument hands the error on,
\* drain logs it and goes on
WriteDone(r, err) ==
    IF r.cur.flush = "addDocument"
    THEN Ack(Called(r, "addDocument", err), r.cur.next, err)
    ELSE Drain(Error(r, err))

\* AddIndices, were the records taken from the front
AddIndicesFifo(r) ==
    IF Len(r.metadata) = 0
    THEN BeginCallback(Error(Called(r, "addIndices", NoErr), NoErr), NoErr)
    ELSE LET collectionAndIndexes == r.metadata[1]
         IN  [r EXCEPT !.metadata = Tail(@),
                       !.indexes =
                           Append(@, [createIndexes |->
                                          collectionAndIndexes.collectionName,
                                      indexes |->
                                          collectionAndIndexes.document]),
                       !.pc = "createIndexes",
                       !.cur = NoCur]

\* writer.addIndices(indices, callback), called by finish
AddIndices(r) ==
    IF Len(r.metadata) = 0
    THEN BeginCallback(Error(Called(r, "addIndices", NoErr), NoErr), NoErr)
    ELSE LET collectionAndIndexes == r.metadata[Len(r.metadata)]
         IN  [r EXCEPT !.metadata = SubSeq(@, 1, Len(@) - 1),
                       !.indexes =
                           Append(@, [createIndexes |->
                                          collectionAndIndexes.collectionName,
                                      indexes |->
                                          collectionAndIndexes.document]),
                       !.pc = "createIndexes",
                       !.cur = NoCur]

\* the callback finish hands to writer.drain
DrainDone(r) ==
    IF ~r.my.metadata
    THEN BeginCallback(Error(r, NoErr), NoErr)
    ELSE AddIndices(Error(r, NoErr))

\* writer.drain(callback)
Drain(r) ==
    IF Len(Keys(r.dataToWrite)) = 0
    THEN DrainDone(Called(r, "drain", NoErr))
    ELSE WriteAllInCollection(r, Keys(r.dataToWrite)[1], "drain", "none")

----------------------------------------------------------------------------
(* streamListener *)

\* Finish, were the indexes replayed without draining first
FinishWithoutDrain(r) == DrainDone([r EXCEPT !.finishes = @ + 1])

\* finish(callback)
Finish(r) == Drain([r EXCEPT !.finishes = @ + 1])

\* OnDirectory, were the reserved directory announced like any other
OnDirectoryCreatingAll(r, directoryName, next) ==
    LET collectionName == CollectionNameForDirectory(directoryName)
    IN  IF collectionName = NoMatch
        THEN Throw(r)
        ELSE CreateCollection(r, collectionName, next)

\* onDirectory(directoryName, callback)
OnDirectory(r, directoryName, next) ==
    LET collectionName == CollectionNameForDirectory(directoryName)
    IN  IF collectionName = NoMatch
        THEN Throw(r)
        ELSE IF collectionName = MetadataDir
        THEN Ack(r, next, NoErr)
        ELSE CreateCollection(r, collectionName, next)

\* OnFile, were supportMetadata not consulted
OnFileAlwaysReading(r, name, blob, next) ==
    LET collectionName == CollectionNameForFiles(name)
    IN  IF collectionName = NoMatch
        THEN Throw(r)
        ELSE [r EXCEPT !.pc = "stream",
                       !.cur = [NoCur EXCEPT
                                  !.collectionName = collectionName,
                                  !.metadataName =
                                      IF collectionName = MetadataDir
                                      THEN MetadataFilename(name)
                                      ELSE << >>,
                                  !.blob = blob,
                                  !.next = next]]

\* onFile(name, stream, callback), up to the registration of the stream's
\* listeners; blob is what the stream will deliver
OnFile(r, name, blob, next) ==
    LET collectionName == CollectionNameForFiles(name)
    IN  IF collectionName = NoMatch
        THEN Throw(r)
        ELSE IF collectionName = MetadataDir /\ ~r.my.metadata
        THEN Ack(r, next, NoErr)
        ELSE [r EXCEPT !.pc = "stream",
                       !.cur = [NoCur EXCEPT
                                  !.collectionName = collectionName,
                                  !.metadataName =
                                      IF collectionName = MetadataDir
                                      THEN MetadataFilename(name)
                                      ELSE << >>,
                                  !.blob = blob,
                                  !.next = next]]

\* the stream's 'end' listener
OnEnd(r) ==
    IF r.cur.collectionName = MetadataDir
    THEN Ack([r EXCEPT !.metadata =
                           Append(@, [collectionName |-> r.cur.metadataName,
                                      document |-> JsonParse(r.cur.blob)]),
                       !.blobsRead = @ + 1],
             r.cur.next, NoErr)
    ELSE AddDocument(r, r.cur.collectionName, ParserParse(r.cur.blob),
                     r.cur.next)

----------------------------------------------------------------------------
(* fileSystemDataSource *)

\* fs.readdirSync(dir): the names in a directory listing
Readdir(entries) == [i \in 1..Len(entries) |-> entries[i].name]

\* the content fs.createReadStream(filename) delivers
ReadFile(filename) ==
    LET n == Len(filename)
        dirs == rootDir[1].dirs
        d == CHOOSE i \in 1..Len(dirs) : dirs[i].name = filename[n - 1]
        fs == dirs[d].files
        f == CHOOSE i \in 1..Len(fs) : fs[i].name = filename[n]
    IN  fs[f].data

\* addCollections(streamListener, collections, callback)
AddCollections(r) ==
    IF Len(r.collections) = 0
    THEN \* the callback begin hands over: list every file, addFiles
         LET dbRootDir == Join(RootPath, Readdir(rootDir)[1])
             dirs == rootDir[1].dirs
             directoryArrays ==
                 [i \in 1..Len(dirs) |->
                    [j \in 1..Len(dirs[i].files) |->
                       Join(Join(dbRootDir, dirs[i].name),
                            dirs[i].files[j].name)]]
             allFiles == Concat(directoryArrays)
         IN  AddFiles([Error(r, NoErr) EXCEPT !.files = allFiles])
    ELSE LET collectionName == r.collections[Len(r.collections)]
         IN  OnDirectory([r EXCEPT !.collections = SubSeq(@, 1, Len(@) - 1),
                                   !.dispatched = @ + 1],
                         collectionName, "addCollections")

\* AddFiles, were finish called with one file still to dispatch
AddFilesFinishingEarly(r) ==
    IF Len(r.files) <= 1
    THEN Finish(Error(r, NoErr))
    ELSE LET filename == r.files[Len(r.files)]
         IN  OnFile([r EXCEPT !.files = SubSeq(@, 1, Len(@) - 1),
                              !.dispatched = @ + 1],
                    filename, ReadFile(filename), "addFiles")

\* addFiles(streamListener, files, callback)
AddFiles(r) ==
    IF Len(r.files) = 0
    THEN Finish(Error(r, NoErr))
    ELSE LET filename == r.files[Len(r.files)]
         IN  OnFile([r EXCEPT !.files = SubSeq(@, 1, Len(@) - 1),
                              !.dispatched = @ + 1],
                    filename, ReadFile(filename), "addFiles")

\* FsBegin, were the files dispatched without announcing the directories first
FsBeginFilesFirst(r) ==
    LET dirs == Readdir(rootDir)
    IN  IF Len(dirs) # 1
        THEN BeginCallback(r, "Found multiple directories")
        ELSE LET dbRootDir == Join(RootPath, dirs[1])
                 names == Readdir(rootDir[1].dirs)
                 allFiles == Concat([i \in 1..Len(rootDir[1].dirs) |->
                            [j \in 1..Len(rootDir[1].dirs[i].files) |->
                               Join(Join(dbRootDir, rootDir[1].dirs[i].name),
                                    rootDir[1].dirs[i].files[j].name)]])
             IN  AddFiles(
                     [r EXCEPT !.collections =
                          [i \in 1..Len(names) |-> Join(dbRootDir, names[i])],
                               !.files = allFiles])

\* fileSystemDataSource(rootDir).begin(streamListener, callback)
FsBegin(r) ==
    LET dirs == Readdir(rootDir)
    IN  IF Len(dirs) # 1
        THEN BeginCallback(r, "Found multiple directories")
        ELSE LET dbRootDir == Join(RootPath, dirs[1])
                 names == Readdir(rootDir[1].dirs)
             IN  AddCollections(
                     [r EXCEPT !.collections =
                          [i \in 1..Len(names) |-> Join(dbRootDir, names[i])]])

----------------------------------------------------------------------------
(* streamingTarDataSource *)

\* begin(streamListener, callback): tarStream.pipe(extract)
TarBegin(r) == [r EXCEPT !.pc = "extract", !.tarPos = 0]

\* the 'entry' listener
OnEntry(r, header) ==
    IF header.type = "directory"
    THEN OnDirectory([r EXCEPT !.dispatched = @ + 1], header.name, "tar")
    ELSE IF header.type = "file"
    THEN OnFile([r EXCEPT !.dispatched = @ + 1], header.name, header.data,
                "tar")
    ELSE TarNext(r, NoErr)

----------------------------------------------------------------------------
(* go *)

\* importDataToDb(err)
ImportDataToDb(r, err) ==
    LET r1 == [r EXCEPT !.imports = Append(@, err)]
    IN  IF err # NoErr
        THEN Callback([r1 EXCEPT !.closes = @ + 1], err)
        ELSE LET r2 == [r1 EXCEPT !.begins = @ + 1]
             IN  IF r.my.tar THEN TarBegin(r2) ELSE FsBegin(r2)

\* someCollections(db, collections, next): a collection handle is requested
\* for every selected collection at once
SomeCollections(r, selected) ==
    IF Len(selected) = 0
    THEN ImportDataToDb(r, NoErr)
    ELSE [r EXCEPT !.dropState = [i \in 1..Len(selected) |-> "collection"],
                   !.counter = 0,
                   !.pc = "dropping"]

\* NotSystem, were the test inverted
OnlySystem(names) == SelectSeq(names, LAMBDA n : Len(n) >= 2 /\ n[1] = "system")

\* the collections to drop in "all" mode: the listed names that systemRegex
\* does not match, in listing order
NotSystem(names) == SelectSeq(names, LAMBDA n : ~SystemRegexTest(n))

\* IsLast, were the first completion taken for the last
IsFirst(last, count) == count = 1

\* one more drop attempt has completed: is it the last one?
IsLast(last, count) == last = count

----------------------------------------------------------------------------
(* The sessions checked: options and dumps. *)

NoDropCollections == [kind |-> "null", list |-> << >>]

\* my.drop and my.dropCollections: nothing, the whole database (which wins
\* over dropCollections), every existing collection, an explicit list
DropPolicies ==
    { [drop |-> FALSE, dropCollections |-> NoDropCollections],
      [drop |-> TRUE, dropCollections |-> NoDropCollections],
      [drop |-> TRUE, dropCollections |-> [kind |-> "true", list |-> << >>]],
      [drop |-> FALSE, dropCollections |-> [kind |-> "true", list |-> << >>]] }
    \cup { [drop |-> FALSE, dropCollections |-> [kind |-> "array", list |-> l]] :
             l \in NamedLists }

NoPolicy(p) == ~p.drop /\ p.dropCollections.kind = "null"

\* restore(options) has run: wrapper has called go, and go has called
\* MongoClient.connect.  Dumps that cross the threshold are restored without
\* a drop policy: the drop step is over before the dump is opened.
Init ==
    \E tar \in BOOLEAN, meta \in BOOLEAN, withMeta \in BOOLEAN,
       withRootEntry \in BOOLEAN, n \in DocCounts \cup SmallCounts,
       tops \in 0..2, p \in DropPolicies, ex \in {Existing, << >>} :
        /\ n > MaxExtra =>
              NoPolicy(p) /\ tops = 1 /\ withMeta /\ ~withRootEntry
        /\ tar => tops = 1
        /\ ~tar => ~withRootEntry
        /\ ex = << >> => ~p.drop /\ p.dropCollections.kind = "true"
        /\ my = [drop |-> p.drop, dropCollections |-> p.dropCollections,
                 metadata |-> meta, tar |-> tar]
        /\ rootDir = IF tar THEN << >>
                     ELSE SubSeq(<<DbDir(n, withMeta), OtherDir>>, 1, tops)
        /\ tarStream = IF tar THEN TarOf(DbDir(n, withMeta), withRootEntry)
                       ELSE << >>
        /\ existing = ex
        /\ pc = "connecting"
        /\ connects = 1
        /\ closes = 0
        /\ callbacks = << >>
        /\ dropDatabases = 0
        /\ listings = 0
        /\ dropState = << >>
        /\ counter = 0
        /\ drops = << >>
        /\ imports = << >>
        /\ begins = 0
        /\ collections = << >>
        /\ files = << >>
        /\ tarPos = 0
        /\ cur = NoCur
        /\ dataToWrite = << >>
        /\ metadata = << >>
        /\ creates = << >>
        /\ inserts = << >>
        /\ indexes = << >>
        /\ blobsRead = 0
        /\ finishes = 0
        /\ dispatched = 0
        /\ acknowledged = 0
        /\ acks = {}
        /\ failed = {}

\* a call has answered with an error
Fail(r, kind) == [r EXCEPT !.failed = @ \cup {kind}]

----------------------------------------------------------------------------
(* The callbacks. *)

\* go: the callback of MongoClient.connect
AfterConnect(r) ==
    IF r.my.drop
    THEN [r EXCEPT !.dropDatabases = @ + 1, !.pc = "dropDatabase"]
    ELSE IF r.my.dropCollections.kind # "null"
    THEN IF r.my.dropCollections.kind = "array"
         THEN SomeCollections(r, r.my.dropCollections.list)
         ELSE [r EXCEPT !.listings = @ + 1, !.pc = "collections"]
    ELSE ImportDataToDb(r, NoErr)

ConnectResponse ==
    /\ pc = "connecting"
    /\ \E ok \in BOOLEAN :
         Set(IF ok THEN AfterConnect(St)
             ELSE Callback(Fail(St, "connect"), "connect failed"))

\* db.dropDatabase(importDataToDb)
DropDatabaseResponse ==
    /\ pc = "dropDatabase"
    /\ \E ok \in BOOLEAN :
         Set(IF ok THEN ImportDataToDb(St, NoErr)
             ELSE ImportDataToDb(Fail(St, "dropDatabase"),
                                 "dropDatabase failed"))

\* go: the callback of db.collections; listed is what it is handed
AfterCollections(r, listed) ==
    LET names == NotSystem(listed)
        r1 == [r EXCEPT !.my.dropCollections =
                            [kind |-> "array", list |-> names]]
    IN  SomeCollections(r1, names)

\* on an error the driver hands over either no list, and reading its length
\* throws, or a list
CollectionsResponse ==
    /\ pc = "collections"
    /\ \E outcome \in {"ok", "error", "errorNoList"} :
         Set(CASE outcome = "ok" -> AfterCollections(St, existing)
               [] outcome = "error" ->
                    AfterCollections(Error(Fail(St, "collections"),
                                           "collections failed"), existing)
               [] outcome = "errorNoList" ->
                    Throw(Error(Fail(St, "collections"),
                                "collections failed")))

\* someCollections: the callback of db.collection for the i-th selected
\* collection.  On an error the driver hands over either no collection, and
\* reading its name throws, or a collection.
SelectResponse(i) ==
    /\ pc = "dropping"
    /\ dropState[i] = "collection"
    /\ \E outcome \in {"ok", "error", "errorNoCollection"} :
         Set(CASE outcome = "ok" ->
                    [St EXCEPT !.dropState[i] = "drop",
                               !.drops = Append(@, my.dropCollections.list[i])]
               [] outcome = "error" ->
                    LET r == [Fail(St, "collection") EXCEPT
                                !.dropState[i] = "noCollection",
                                !.counter = @ + 1]
                    IN  IF IsLast(Len(r.dropState), r.counter)
                        THEN ImportDataToDb(r, "collection failed")
                        ELSE Error(r, "collection failed")
               [] outcome = "errorNoCollection" ->
                    Throw(Fail(St, "collection")))

\* someCollections: the callback of collection.drop
DropResponse(i) ==
    /\ pc = "dropping"
    /\ dropState[i] = "drop"
    /\ \E ok \in BOOLEAN :
         LET r == [(IF ok THEN St ELSE Error(Fail(St, "drop"), "drop failed"))
                     EXCEPT !.dropState[i] = "dropped", !.counter = @ + 1]
         IN  Set(IF IsLast(Len(r.dropState), r.counter)
                 THEN ImportDataToDb(r, NoErr)
                 ELSE r)

\* the tar extractor emits the next entry
ExtractEntry ==
    /\ pc = "extract"
    /\ tarPos < Len(tarStream)
    /\ Set(OnEntry([St EXCEPT !.tarPos = @ + 1], tarStream[tarPos + 1]))

\* the tar extractor emits 'finish'
ExtractFinish ==
    /\ pc = "extract"
    /\ tarPos = Len(tarStream)
    /\ Set(Finish(St))

\* the tar extractor was handed an error by next(err): the library either
\* goes on with the next entry or destroys the stream, and then neither
\* another entry nor 'finish' is emitted
ExtractError ==
    /\ pc = "extractError"
    /\ \E destroy \in BOOLEAN :
         Set([St EXCEPT !.pc = IF destroy THEN "destroyed" ELSE "extract"])

\* db.createCollection(collectionName, next): next is the source's
\* acknowledgment itself
CreateCollectionResponse ==
    /\ pc = "createCollection"
    /\ \E ok \in BOOLEAN :
         Set(IF ok
             THEN Ack(Called(St, "createCollection", NoErr), cur.next, NoErr)
             ELSE Ack(Called(Fail(St, "createCollection"), "createCollection",
                             "createCollection failed"),
                      cur.next, "createCollection failed"))

\* the file's stream has ended
StreamEnd ==
    /\ pc = "stream"
    /\ Set(OnEnd(St))

\* writeAllInCollection: the callback of db.collection.  On an error the
\* driver hands over either no collection, and calling its bulkWrite throws,
\* or a collection.
CollectionResponse ==
    /\ pc = "collection"
    /\ \E outcome \in {"ok", "error", "errorNoCollection"} :
         LET r == IF outcome = "ok" THEN St
                  ELSE Error(Fail(St, "writer collection"), "collection failed")
         IN  Set(IF outcome = "errorNoCollection"
                 THEN Throw(r)
                 ELSE [r EXCEPT !.inserts =
                                    Append(@, [collection |->
                                                   r.cur.collectionName,
                                               operations |->
                                                   r.cur.operations]),
                                !.pc = "bulkWrite"])

\* writeAllInCollection: the callback of collection.bulkWrite
BulkWriteResponse ==
    /\ pc = "bulkWrite"
    /\ \E ok \in BOOLEAN :
         LET r == [(IF ok THEN St ELSE Fail(St, "bulkWrite")) EXCEPT
                     !.dataToWrite = Delete(@, cur.collectionName)]
         IN  Set(WriteDone(r, IF ok THEN NoErr ELSE "bulkWrite failed"))

\* addIndices: the callback of db.command({createIndexes: ...})
CreateIndexesResponse ==
    /\ pc = "createIndexes"
    /\ \E ok \in BOOLEAN :
         Set(AddIndices(IF ok THEN St
                        ELSE Error(Fail(St, "createIndexes"),
                                   "createIndexes failed")))

Next ==
    \/ ConnectResponse
    \/ DropDatabaseResponse
    \/ CollectionsResponse
    \/ \E i \in 1..Len(dropState) : SelectResponse(i)
    \/ \E i \in 1..Len(dropState) : DropResponse(i)
    \/ ExtractEntry
    \/ ExtractFinish
    \/ ExtractError
    \/ CreateCollectionResponse
    \/ StreamEnd
    \/ CollectionResponse
    \/ BulkWriteResponse
    \/ CreateIndexesResponse

Spec == Init /\ [][Next]_vars

----------------------------------------------------------------------------
(* What the properties speak of. *)

\* a sequence as a multiset
SeqBag(s) ==
    [x \in {s[i] : i \in DOMAIN s} |-> Cardinality({i \in DOMAIN s : s[i] = x})]

\* the files of the dump, as [dir, name, data], whichever the source
DumpFiles ==
    IF my.tar
    THEN LET fs == SelectSeq(tarStream, LAMBDA e : e.type = "file")
         IN  [i \in 1..Len(fs) |->
                [dir |-> fs[i].name[Len(fs[i].name) - 1],
                 name |-> fs[i].name[Len(fs[i].name)],
                 data |-> fs[i].data]]
    ELSE IF Len(rootDir) = 0 THEN << >>
    ELSE Concat([i \in 1..Len(rootDir[1].dirs) |->
                   [j \in 1..Len(rootDir[1].dirs[i].files) |->
                      [dir |-> rootDir[1].dirs[i].name,
                       name |-> rootDir[1].dirs[i].files[j].name,
                       data |-> rootDir[1].dirs[i].files[j].data]]])

\* the documents of the dump, each with its collection
SourceDocuments ==
    LET fs == SelectSeq(DumpFiles, LAMBDA f : f.dir # MetadataDir)
    IN  [i \in 1..Len(fs) |->
           [collection |-> fs[i].dir, document |-> [value |-> fs[i].data]]]

\* the index specification files of the dump, each with its collection
SourceMetadata ==
    LET fs == SelectSeq(DumpFiles, LAMBDA f : f.dir = MetadataDir)
    IN  [i \in 1..Len(fs) |-> [collection |-> fs[i].name, data |-> fs[i].data]]

\* the documents submitted in batched inserts, each with its collection
InsertedDocuments ==
    Concat([i \in 1..Len(inserts) |->
              [j \in 1..Len(inserts[i].operations) |->
                 [collection |-> inserts[i].collection,
                  document |-> inserts[i].operations[j].insertOne.document]]])

\* the session has completed and its callback got no error
Completed == pc = "done" /\ callbacks = <<NoErr>>

\* a batched insert is being prepared or is outstanding
Flushing == pc \in {"collection", "bulkWrite"}

\* no call is outstanding and no event is due
Quiescent == ~ENABLED Next

----------------------------------------------------------------------------
(* C1: when no database call fails and the session completes, the multiset *)
(* of documents submitted in batched inserts to each collection equals the *)
(* multiset of documents of that collection's source files, whatever the   *)
(* number of threshold crossings, and no pending buffer is left.           *)
C1_EverySourceDocumentInsertedOnce ==
    (Completed /\ failed = {}) =>
        /\ SeqBag(InsertedDocuments) = SeqBag(SourceDocuments)
        /\ dataToWrite = << >>

\* a completed restore that crossed the threshold twice and drained the rest
C1_Witness ==
    /\ Completed /\ failed = {}
    /\ Len(inserts) >= 3
    /\ \E i, j \in 1..Len(inserts) :
         /\ i # j
         /\ Len(inserts[i].operations) = Threshold + 1
         /\ Len(inserts[j].operations) = Threshold + 1
    /\ \E i \in 1..Len(inserts) : Len(inserts[i].operations) <= Threshold

(* C2: with metadata replay enabled, every index specification file under  *)
(* .metadata/<collection> produces exactly one create-indexes request      *)
(* naming that collection, and once a create-indexes request has been      *)
(* issued every pending buffer is empty and no batched insert is issued.   *)
C2_IndexesAfterDrain ==
    /\ [](/\ (Completed /\ my.metadata) =>
                SeqBag(indexes)
                  = SeqBag([i \in 1..Len(SourceMetadata) |->
                              [createIndexes |-> SourceMetadata[i].collection,
                               indexes |-> JsonParse(SourceMetadata[i].data)]])
          /\ Len(indexes) > 0 => dataToWrite = << >> /\ ~Flushing)
    /\ [][Len(indexes) > 0 => inserts' = inserts]_vars

\* both index files replayed after three batched inserts
C2_Witness ==
    /\ Completed /\ my.metadata
    /\ Len(indexes) = 2
    /\ Len(inserts) >= 3

(* C3: with metadata replay disabled, for both sources, no .metadata blob  *)
(* is read or decoded, no metadata record is accumulated, no create-indexes*)
(* request is issued, and once finish has been called the session is       *)
(* draining or has closed the connection and called back.                  *)
C3_NoMetadataWhenDisabled ==
    ~my.metadata =>
        /\ blobsRead = 0
        /\ ~(pc = "stream" /\ cur.collectionName = MetadataDir)
        /\ metadata = << >>
        /\ indexes = << >>
        /\ pc # "createIndexes"
        /\ finishes > 0 =>
              \/ Flushing /\ cur.flush = "drain"
              \/ pc = "crashed"
              \/ pc = "done" /\ closes = 1 /\ Len(callbacks) = 1

\* a dump with index files restored with replay disabled, through a drain
C3_Witness ==
    /\ ~my.metadata
    /\ Completed
    /\ Len(SourceMetadata) > 0
    /\ Len(inserts) > 0

(* C4: addDocument flushes exactly when the buffer's length after the      *)
(* append exceeds 50.  The append of a document that leaves at most 50     *)
(* pending starts no flush and keeps them all pending; the 51st starts one *)
(* flush of all 51 documents, which is submitted as one batched insert,    *)
(* and the buffer is removed when addDocument acknowledges.                *)
C4_FlushOnFiftyFirst ==
    [][LET name == cur.collectionName
           before == IF HasKey(dataToWrite, name)
                     THEN Pending(dataToWrite, name) ELSE << >>
           after == Append(before, [value |-> cur.blob])
       IN  /\ (pc = "stream" /\ name # MetadataDir /\ Len(after) <= Threshold) =>
                /\ inserts' = inserts
                /\ cur'.flush # "addDocument"
                /\ Pending(dataToWrite', name) = after
           /\ (pc = "stream" /\ name # MetadataDir /\ Len(after) > Threshold) =>
                /\ pc' = "collection"
                /\ cur'.flush = "addDocument"
                /\ cur'.collectionName = name
                /\ Len(cur'.operations) = Threshold + 1
                /\ cur'.operations =
                     [i \in 1..Len(after) |->
                        [insertOne |-> [document |-> after[i]]]]
           /\ (pc = "collection" /\ cur.flush = "addDocument"
                 /\ pc' = "bulkWrite") =>
                inserts' = Append(inserts, [collection |-> name,
                                            operations |-> cur.operations])
           /\ (pc = "bulkWrite" /\ cur.flush = "addDocument") =>
                /\ inserts' = inserts
                /\ ~HasKey(dataToWrite', name)
      ]_vars

\* the flush started by a 51st document is outstanding, as the one insert
C4_Witness ==
    /\ pc = "bulkWrite"
    /\ cur.flush = "addDocument"
    /\ Len(inserts) = 1
    /\ Len(inserts[1].operations) = Threshold + 1

----------------------------------------------------------------------------
(* The drop step. *)

\* the calls whose outcomes the completion contract speaks of
NamedCalls ==
    {"connect", "dropDatabase", "drop", "collections", "createCollection",
     "bulkWrite", "createIndexes"}

\* the session is connected and past the decision of what to drop
Connected == pc # "connecting" /\ "connect" \notin failed

\* collections are dropped one by one: a list was given, or "all" was asked
\* for and the listing has been answered with a list
DropsSelected ==
    /\ Connected
    /\ ~my.drop
    /\ my.dropCollections.kind = "array"

\* a name with the reserved prefix "system."
HasSystemPrefix(name) == Len(name) > 1 /\ Head(name) = "system"

\* the collections the drop policy names: every existing collection without
\* the reserved prefix when all were asked for, else the given list
DropTargets ==
    IF listings > 0
    THEN SelectSeq(existing, LAMBDA n : ~HasSystemPrefix(n))
    ELSE my.dropCollections.list

Outstanding(i) == dropState[i] \in {"collection", "drop"}

\* every selected drop attempt has completed
DropsCompleted ==
    /\ DropsSelected
    /\ Len(dropState) = Len(my.dropCollections.list)
    /\ \A i \in 1..Len(dropState) : ~Outstanding(i)

\* the Dropping step has completed
DroppingCompleted ==
    \/ Connected /\ my.drop /\ pc # "dropDatabase"
    \/ DropsCompleted

(* C5: in a run in which every call has responded the completion callback  *)
(* has fired exactly once, whatever the outcome of each connect, drop,     *)
(* listing, create, insert and create-indexes call (stated for the         *)
(* filesystem source and failures of these calls only).                    *)
C5_CallbackExactlyOnce ==
    (~my.tar /\ failed \subseteq NamedCalls) =>
        /\ Len(callbacks) <= 1
        /\ Quiescent => Len(callbacks) = 1

(* C6: on every path the connection is closed, and the callback fires only *)
(* after the close (stated for the filesystem source, a successful connect *)
(* and no failure but that of the listing).                                *)
C6_AlwaysClosed ==
    (~my.tar /\ failed \subseteq {"collections"}) =>
        /\ Len(callbacks) > 0 => closes = 1
        /\ Quiescent => closes = 1 /\ Len(callbacks) = 1

(* C7: a filesystem dump root with zero or several top-level directories   *)
(* yields a configuration error without a connection attempt and without   *)
(* any drop, create, insert or create-indexes request.                     *)
C7_InvalidRootTouchesNothing ==
    (~my.tar /\ Len(rootDir) # 1 /\ pc = "done"
       /\ callbacks = <<"Found multiple directories">>) =>
        /\ connects = 0
        /\ dropDatabases = 0 /\ listings = 0 /\ drops = << >>
        /\ creates = << >> /\ inserts = << >> /\ indexes = << >>

(* C8, as claimed: once the drops have completed, a drop has been issued   *)
(* for exactly the collections the policy names.                           *)
C8_DropIssuedForEveryTarget ==
    DropsCompleted => SeqBag(drops) = SeqBag(DropTargets)

(* C8, amended: the collections selected for dropping are exactly those    *)
(* the policy names (every listed collection without the prefix system.    *)
(* and none with it, or exactly the given list); a drop is issued only for *)
(* selected collections, and once the attempts have completed, for exactly *)
(* those whose collection handle was obtained.                             *)
C8_DropIssuedForSelectedWithHandle ==
    DropsSelected =>
        LET list == my.dropCollections.list
            obtained == { i \in 1..Len(dropState) :
                            dropState[i] \in {"drop", "dropped"} }
        IN  /\ list = DropTargets
            /\ listings > 0 => \A i \in 1..Len(list) : ~HasSystemPrefix(list[i])
            /\ Len(dropState) \in {0, Len(list)}
            /\ Len(drops) = Cardinality(obtained)
            /\ \A n \in {drops[k] : k \in 1..Len(drops)} :
                 Cardinality({k \in 1..Len(drops) : drops[k] = n})
                   = Cardinality({i \in obtained : list[i] = n})
            /\ DropsCompleted =>
                 \A i \in 1..Len(list) :
                    dropState[i] \in {"dropped", "noCollection"}
            /\ (DropsCompleted /\ "collection" \notin failed) =>
                 SeqBag(drops) = SeqBag(DropTargets)

\* all existing collections were asked for, the listing held reserved names,
\* one handle was not obtained, and the other collection was dropped
C8_Witness ==
    /\ DropsCompleted
    /\ listings > 0
    /\ \E i \in 1..Len(existing) : HasSystemPrefix(existing[i])
    /\ Len(drops) = 1
    /\ \E i \in 1..Len(dropState) : dropState[i] = "noCollection"

C10_ImportWhateverTheDrops ==
    DroppingCompleted => imports = <<NoErr>> /\ begins = 1

(* C11: the writer never hands a database failure to its caller: every     *)
(* callback handed to createCollection, addDocument, drain or addIndices   *)
(* is called without an error value, the request having failed or not.     *)
C11_WriterNeverEscalates ==
    \A a \in acks : a[2] = NoErr

(* C12: in all-existing drop mode a failure of the listing call aborts the *)
(* run: no drop is attempted, the import does not begin, and at rest the   *)
(* connection has been closed and the callback has received the error.     *)
C12_ListingFailureIsFatal ==
    "collections" \in failed =>
        /\ dropState = << >> /\ drops = << >>
        /\ imports = << >> /\ begins = 0 /\ creates = << >>
        /\ Quiescent =>
             /\ closes = 1
             /\ Len(callbacks) = 1 /\ callbacks[1] # NoErr

\* the requests the writer issues on behalf of the dump
WriterFailures == {"createCollection", "bulkWrite", "createIndexes"}

\* the session has stopped: these are the states in which no callback is due
Stopped == pc \in {"done", "crashed", "destroyed"}

\* the import is waiting for the answer to one request or for the end of a
\* file's stream
Awaiting ==
    {"createCollection", "stream", "collection", "bulkWrite", "createIndexes"}

\* the directories and files a file-system dump announces
FsEntries == Len(rootDir[1].dirs) + Len(DumpFiles)

(* C13: in a restore from the file system, failed create-collection,       *)
(* batched-insert and create-indexes requests are not fatal: the import is *)
(* always awaiting an answer or complete, and the run ends                 *)
(* only after every directory and file has been dispatched and             *)
(* acknowledged, every document has been submitted, the drain and (when    *)
(* enabled) one create-indexes request per index file have run, the        *)
(* connection is closed and the callback is called once without an error.  *)
C13_FsWriterFailuresNotFatal ==
    (/\ ~my.tar /\ begins = 1 /\ Len(rootDir) = 1
     /\ failed \subseteq WriterFailures) =>
        /\ pc \in Awaiting \cup {"done"}
        /\ callbacks \in {<< >>, <<NoErr>>}
        /\ (callbacks # << >> \/ Stopped) =>
             /\ Completed
             /\ closes = 1
             /\ finishes = 1
             /\ dispatched = FsEntries /\ acknowledged = FsEntries
             /\ collections = << >> /\ files = << >>
             /\ SeqBag(InsertedDocuments) = SeqBag(SourceDocuments)
             /\ <<"drain", NoErr>> \in acks
             /\ my.metadata =>
                  /\ Len(indexes) = Len(SourceMetadata)
                  /\ <<"addIndices", NoErr>> \in acks

\* a restore from the file system has completed although a
\* create-collection, a batched-insert and a create-indexes request failed
C13_Witness ==
    /\ ~my.tar /\ Completed
    /\ failed = WriterFailures
    /\ Len(creates) = 2 /\ Len(inserts) >= 2 /\ Len(indexes) = 2

\* the directories and files the source of this session has to announce
SourceEntries ==
    IF my.tar
    THEN Len(SelectSeq(tarStream,
                       LAMBDA e : e.type \in {"directory", "file"}))
    ELSE IF Len(rootDir) = 1 THEN FsEntries ELSE 0

\* the onComplete callback handed to begin has fired
OnComplete == begins = 1 /\ closes = 1

\* the file-system source has refused the dump root
RootRefused == ~my.tar /\ begins = 1 /\ Len(rootDir) # 1

\* entries are delivered one at a time, finish is called at most once and
\* only after every entry of the source has been acknowledged
OneAtATime ==
    /\ acknowledged <= dispatched /\ dispatched <= acknowledged + 1
    /\ dispatched <= SourceEntries
    /\ finishes <= 1
    /\ finishes = 1 =>
         /\ dispatched = SourceEntries /\ acknowledged = SourceEntries
         /\ collections = << >> /\ files = << >>
         /\ my.tar => tarPos = Len(tarStream)

(* C14: each source delivers its entries one at a time, and in every run   *)
(* of begin finish has been called exactly once, after the acknowledgment  *)
(* of the last entry, when onComplete fires.                               *)
C14_FinishOnceBeforeOnComplete ==
    /\ OneAtATime
    /\ OnComplete => finishes = 1

(* C14, amended: each source delivers its entries one at a time; finish is *)
(* called at most once, after the acknowledgment of the last entry, and    *)
(* onComplete fires only after it, except that the file-system source      *)
(* refusing the dump root calls onComplete with the error without having   *)
(* dispatched an entry or called finish.                                   *)
C14_FinishOnceUnlessRootRefused ==
    /\ OneAtATime
    /\ (OnComplete /\ ~RootRefused) => finishes = 1
    /\ RootRefused =>
         /\ finishes = 0 /\ dispatched = 0
         /\ OnComplete /\ callbacks = <<"Found multiple directories">>

\* finish was called once, after six or more entries were acknowledged one
\* by one, a create-collection request among them having failed, and
\* onComplete has fired
C14_Witness ==
    /\ OnComplete /\ finishes = 1
    /\ dispatched >= 6 /\ acknowledged = dispatched
    /\ "createCollection" \in failed

\* a file of the dump has been dispatched to the listener
FileDispatched ==
    dispatched > (IF Len(rootDir) = 1 THEN Len(rootDir[1].dirs) ELSE 0)

\* the collection directories of a file-system dump
FsCollections ==
    SelectSeq(Readdir(rootDir[1].dirs), LAMBDA n : n # MetadataDir)

(* C15: in a restore from the file system every directory is announced and *)
(* acknowledged before the first file is dispatched: the create-collection *)
(* request of a collection has been issued and answered before a document  *)
(* of that collection is buffered or inserted.                             *)
C15_FsCreateBeforeDocuments ==
    ~my.tar =>
        /\ (FileDispatched \/ pc = "stream" \/ dataToWrite # << >>
            \/ inserts # << >> \/ metadata # << >>) =>
              /\ collections = << >>
              /\ pc # "createCollection"
              /\ SeqBag(creates) = SeqBag(FsCollections)
              /\ acknowledged >= Len(rootDir[1].dirs)
        /\ \A i \in DOMAIN dataToWrite :
             \E j \in DOMAIN creates : creates[j] = dataToWrite[i].name
        /\ \A i \in DOMAIN inserts :
             \E j \in DOMAIN creates : creates[j] = inserts[i].collection

\* the first document of a file-system dump is buffered, both collections
\* having been created before
C15_Witness ==
    /\ ~my.tar
    /\ Len(creates) = 2
    /\ Len(dataToWrite) = 1 /\ Len(dataToWrite[1].documents) = 1
    /\ inserts = << >>
    /\ pc = "stream"

(* C16: for both sources and either value of the metadata flag, the        *)
(* reserved name .metadata is never passed to createCollection, never the  *)
(* key of a pending buffer, never the collection of a flush being prepared *)
(* and never the collection of a batched insert.                           *)
C16_MetadataNeverACollection ==
    /\ \A i \in DOMAIN creates : creates[i] # MetadataDir
    /\ ~HasKey(dataToWrite, MetadataDir)
    /\ \A i \in DOMAIN inserts : inserts[i].collection # MetadataDir
    /\ pc \in {"createCollection", "collection", "bulkWrite"} =>
         cur.collectionName # MetadataDir

\* a dump with a .metadata directory and two index files has been restored
\* to the end, its directory and files dispatched and acknowledged
C16_Witness ==
    /\ Completed
    /\ Len(SourceMetadata) = 2
    /\ dispatched = SourceEntries /\ acknowledged = SourceEntries
    /\ Len(creates) = 2 /\ Len(inserts) >= 2

\* the collections of the dump's documents
SourceCollections ==
    {SourceDocuments[i].collection : i \in DOMAIN SourceDocuments}

\* the number of documents the dump holds for a collection
DocumentsOf(c) ==
    Cardinality({i \in DOMAIN SourceDocuments :
                   SourceDocuments[i].collection = c})

\* the batched inserts for a collection that drain has issued: a flush
\* started by addDocument carries more than Threshold documents
DrainInserts(c) ==
    {i \in DOMAIN inserts :
       /\ inserts[i].collection = c
       /\ Len(inserts[i].operations) <= Threshold}

\* drain has called back
Drained == \E a \in acks : a[1] = "drain"

(* C17: drain terminates and acknowledges without an error: once finish    *)
(* has called it and nothing more can happen it has called back; it issues *)
(* one batched insert per collection with pending documents and none for a *)
(* collection without; when it calls back no buffer is left, failed        *)
(* inserts or not.                                                         *)
C17_DrainAlwaysAcknowledges ==
    /\ \A a \in acks : a[1] = "drain" => a[2] = NoErr
    /\ Drained =>
         /\ finishes = 1
         /\ dataToWrite = << >>
         /\ \A c \in SourceCollections :
              Cardinality(DrainInserts(c))
                = IF DocumentsOf(c) % (Threshold + 1) = 0 THEN 0 ELSE 1
    /\ (finishes = 1 /\ Quiescent) => Drained

Reverse(s) == [i \in 1..Len(s) |-> s[Len(s) + 1 - i]]

\* the create-indexes requests issued, as the records they were made from
IndexRecords ==
    [i \in 1..Len(indexes) |->
       [collectionName |-> indexes[i].createIndexes,
        document |-> indexes[i].indexes]]

\* the metadata records in their order of arrival: those still waiting,
\* then those replayed, the last replayed first
Arrived == metadata \o Reverse(IndexRecords)

\* the index files of the dump in the order the source dispatches them: the
\* archive in its own order, the file system from the end of its listing
MetadataArrival ==
    LET fs == IF my.tar THEN SourceMetadata ELSE Reverse(SourceMetadata)
    IN  [i \in 1..Len(fs) |->
           [collectionName |-> fs[i].collection,
            document |-> JsonParse(fs[i].data)]]

(* C18: addIndices replays the metadata records last in, first out and one *)
(* at a time: the create-indexes requests are the records in the reverse   *)
(* of their order of arrival with their index lists unchanged, a request   *)
(* is issued only when finish starts the replay or when the previous       *)
(* request has answered, and the replay has emptied the record list when   *)
(* the session completes.                                                  *)
C18_IndexesLastInFirstOut ==
    /\ [](/\ (Completed /\ my.metadata) =>
                /\ metadata = << >>
                /\ IndexRecords = Reverse(MetadataArrival)
          /\ pc = "createIndexes" => indexes # << >>
          /\ <<"addIndices", NoErr>> \in acks => metadata = << >>)
    /\ [][/\ \/ Arrived' = Arrived
             \/ /\ indexes = << >> /\ indexes' = << >>
                /\ Len(metadata') = Len(metadata) + 1
                /\ SubSeq(metadata', 1, Len(metadata)) = metadata
          /\ indexes' # indexes =>
                /\ Len(indexes') = Len(indexes) + 1
                /\ pc' = "createIndexes"
                /\ pc = "createIndexes" \/ indexes = << >>]_vars

\* two index files of an archive replayed in the reverse of their arrival,
\* the second request issued after the first had failed
C18_Witness ==
    /\ Completed /\ my.metadata /\ my.tar
    /\ "createIndexes" \in failed
    /\ Len(indexes) = 2
    /\ indexes[1].createIndexes = SourceMetadata[2].collection
    /\ indexes[2].createIndexes = SourceMetadata[1].collection
    /\ indexes[1].indexes # indexes[2].indexes

\* addDocument has started a flush of the collection and has not called
\* back: the flush is outstanding, or an exception has stopped it
AddDocumentFlushing(name) ==
    /\ pc \in {"collection", "bulkWrite", "crashed"}
    /\ cur.flush = "addDocument"
    /\ cur.collectionName = name

(* C19: every key of the pending map owns a buffer of at least one and at  *)
(* most 51 documents, no key occurs twice, and a buffer holds 51 documents *)
(* only while the flush addDocument started for it is in flight: whenever  *)
(* addDocument has acknowledged, every buffer holds between 1 and 50.      *)
C19_BufferBounds ==
    \A i \in DOMAIN dataToWrite :
        /\ Len(dataToWrite[i].documents) >= 1
        /\ Len(dataToWrite[i].documents) <= Threshold + 1
        /\ Len(dataToWrite[i].documents) > Threshold =>
             AddDocumentFlushing(dataToWrite[i].name)
        /\ \A j \in DOMAIN dataToWrite :
             dataToWrite[j].name = dataToWrite[i].name => j = i

\* the second flush of a collection is in flight with 51 documents in its
\* buffer, beside a buffer of one document
C19_Witness ==
    /\ pc = "bulkWrite" /\ cur.flush = "addDocument"
    /\ Len(inserts) = 2
    /\ Len(dataToWrite) = 2
    /\ \E i, j \in DOMAIN dataToWrite :
         /\ Len(dataToWrite[i].documents) = Threshold + 1
         /\ Len(dataToWrite[j].documents) = 1

\* the documents still to be submitted: those of every buffer but the one
\* whose batched insert is outstanding
Unsent ==
    LET waiting == SelectSeq(dataToWrite,
                       LAMBDA e : ~(pc = "bulkWrite"
                                    /\ cur.collectionName = e.name))
    IN  Concat([i \in 1..Len(waiting) |->
                  [j \in 1..Len(waiting[i].documents) |->
                     [collection |-> waiting[i].name,
                      document |-> waiting[i].documents[j]]]])

(* C20: no document is submitted in more than one batched insert: the      *)
(* documents submitted so far together with those still buffered for a     *)
(* later insert are, as a multiset, among the documents of the dump, and   *)
(* the answer to a batched insert, success or failure, removes the buffer  *)
(* of its collection.                                                      *)
C20_NoDocumentSentTwice ==
    /\ [](LET sent == SeqBag(InsertedDocuments \o Unsent)
              source == SeqBag(SourceDocuments)
          IN  \A d \in DOMAIN sent :
                  d \in DOMAIN source /\ sent[d] <= source[d])
    /\ [][pc = "bulkWrite" => ~HasKey(dataToWrite', cur.collectionName)]_vars

\* a restore has completed after a batched insert failed: every document
\* of the dump was submitted once
C20_Witness ==
    /\ Completed
    /\ "bulkWrite" \in failed
    /\ Len(inserts) >= 3
    /\ SeqBag(InsertedDocuments) = SeqBag(SourceDocuments)

====
